---- MODULE Spec2Model ----
(***************************************************************************)
(* Model of the Instagram-research backend proxy: the REST handlers of the *)
(* two deployment variants (variant "A": the rate-limited server with      *)
(* input validation and session_token_ tokens; variant "B":                *)
(* backend-server.js with dummy_jwt_token_for_ tokens), the four upstream  *)
(* contact-client helpers, the token codec and the input validators.       *)
(*                                                                         *)
(* A JavaScript string is a sequence of one-character strings, so that     *)
(* split, startsWith, trim and replace are computed as the code computes   *)
(* them.  Texts that the code never inspects (messages, JSON payloads) are *)
(* plain TLA+ strings.                                                     *)
(***************************************************************************)
EXTENDS Integers, Sequences, FiniteSets, TLC

(***************************************************************************)
(* JavaScript values                                                       *)
(***************************************************************************)
\* undefined / a missing field or header
Absent == <<"undefined">>

\* JavaScript truthiness of a string-or-undefined value
truthy(s) == s # Absent /\ s # <<>>

\* String.prototype.startsWith
startsWith(s, prefix) ==
    /\ Len(s) >= Len(prefix)
    /\ SubSeq(s, 1, Len(prefix)) = prefix

\* String.prototype.split on a one-character separator
RECURSIVE split(_, _)
split(s, sep) ==
    IF \A i \in 1..Len(s) : s[i] # sep
    THEN <<s>>
    ELSE LET i == CHOOSE k \in 1..Len(s) :
                     s[k] = sep /\ \A j \in 1..(k - 1) : s[j] # sep
         IN  <<SubSeq(s, 1, i - 1)>> \o split(SubSeq(s, i + 1, Len(s)), sep)

\* Array.prototype.pop: the last element
pop(parts) == parts[Len(parts)]

\* the characters \s matches among those the model uses
Whitespace == {" "}

\* String.prototype.trim
RECURSIVE trim(_)
trim(s) ==
    IF s = <<>> THEN s
    ELSE IF Head(s) \in Whitespace THEN trim(Tail(s))
    ELSE IF s[Len(s)] \in Whitespace THEN trim(SubSeq(s, 1, Len(s) - 1))
    ELSE s

(***************************************************************************)
(* Input validation (variant A)                                            *)
(***************************************************************************)
\* [^\s@]+ : a non-empty run without whitespace and without '@'
plainRun(s) == s # <<>> /\ \A i \in 1..Len(s) : s[i] \notin Whitespace \cup {"@"}

\* /^[^\s@]+@[^\s@]+\.[^\s@]+$/.test(email)
validateEmail(email) ==
    /\ email # Absent
    /\ \E i \in 1..Len(email) : \E j \in (i + 1)..Len(email) :
          /\ email[i] = "@"
          /\ email[j] = "."
          /\ plainRun(SubSeq(email, 1, i - 1))
          /\ plainRun(SubSeq(email, i + 1, j - 1))
          /\ plainRun(SubSeq(email, j + 1, Len(email)))

PasswordMin == 6
PasswordMax == 128

\* password && password.length >= 6 && password.length <= 128
validatePassword(password) ==
    /\ truthy(password)
    /\ Len(password) >= PasswordMin
    /\ Len(password) <= PasswordMax

\* input.trim().replace(/[<>]/g, '')
sanitizeInput(input) ==
    IF input = Absent THEN input
    ELSE SelectSeq(trim(input), LAMBDA c : c \notin {"<", ">"})

(***************************************************************************)
(* Token codec                                                             *)
(***************************************************************************)
SessionPrefix == <<"s","e","s","s","i","o","n","_","t","o","k","e","n","_">>
DummyPrefix ==
    <<"d","u","m","m","y","_","j","w","t","_","t","o","k","e","n","_","f","o","r","_">>
BearerPrefix == <<"B","e","a","r","e","r"," ">>

\* `session_token_${contactId}_${Date.now()}`
generateSimpleToken(contactId, now) == SessionPrefix \o contactId \o <<"_">> \o now

\* parts[2] of the token split on '_', null for another prefix
verifySimpleToken(token) ==
    IF ~startsWith(token, SessionPrefix) THEN Absent
    ELSE split(token, "_")[3]

\* 'dummy_jwt_token_for_' + contact.id
dummyToken(contactId) == DummyPrefix \o contactId

\* token.split('_').pop()
dummyTokenDecode(token) == pop(split(token, "_"))

\* the token a variant's login issues, and the decoding its /user/info applies
issueToken(v, contactId, now) ==
    IF v = "A" THEN generateSimpleToken(contactId, now) ELSE dummyToken(contactId)

userInfoRecognizes(v, token) ==
    IF v = "A" THEN startsWith(token, SessionPrefix) ELSE startsWith(token, DummyPrefix)

userInfoDecode(v, token) ==
    IF v = "A" THEN verifySimpleToken(token) ELSE dummyTokenDecode(token)

(***************************************************************************)
(* Contacts, upstream store and the four upstream helpers                  *)
(***************************************************************************)
\* a text the code passes along without looking inside it
Str(text) == <<text>>

\* null / undefined where the code expects a contact
NoContact ==
    [id |-> Absent, email |-> Absent, firstName |-> Absent,
     lastName |-> Absent, tier |-> Absent]

\* the id the upstream gives its n-th contact
IdOf(n) == <<"c", ToString(n)>>

\* contact.customFields?.subscription_tier as the upstream may report it:
\* no such field, the empty string, or a tier name
TierValues == {Absent, <<>>, Str("Expired"), Str("Pro")}

\* the stored record as a response's contact, with the tier the upstream reports
asContact(c, tier) ==
    [id |-> c.id, email |-> c.email, firstName |-> c.firstName,
     lastName |-> c.lastName, tier |-> tier]

\* what a helper hands its caller: a value, or a raised error
Returned(value) == [thrown |-> FALSE, value |-> value]
Raised == [thrown |-> TRUE, value |-> NoContact]

\* findContactByEmail: response.data.contacts[0], null on any error
findContactByEmail(ok, matches) ==
    IF ok /\ matches # <<>> THEN Returned(matches[1]) ELSE Returned(NoContact)

\* the body createContact posts
createBody(email, password, firstName, lastName, plan) ==
    [email |-> email,
     firstName |-> IF truthy(firstName) THEN firstName ELSE split(email, "@")[1],
     lastName |-> IF truthy(lastName) THEN lastName ELSE <<>>,
     password |-> password,
     plan |-> IF plan = Absent THEN Str("Individual") ELSE plan]

\* createContact: response.data.contact, null on any error
createContact(ok, created) ==
    IF ok THEN Returned(created) ELSE Returned(NoContact)

\* getContactById: response.data.contact, null on any error
getContactById(ok, found) ==
    IF ok THEN Returned(found) ELSE Returned(NoContact)

\* updateContactResearchData swallowing the error as the other helpers do
updateContactResearchDataSwallow(ok, updated) ==
    IF ok THEN Returned(updated) ELSE Returned(NoContact)

\* updateContactResearchData: response.data.contact, the error thrown again
updateContactResearchData(ok, updated) ==
    IF ok THEN Returned(updated) ELSE Raised

\* subscriptionTier without the || 'Individual' default
subscriptionTierNoDefault(contact) == contact.tier

\* contact.customFields?.subscription_tier || 'Individual'
subscriptionTier(contact) ==
    IF truthy(contact.tier) THEN contact.tier ELSE Str("Individual")

\* subscriptionTier !== 'Expired'
isValid(tier) == tier # Str("Expired")

\* `${contact.firstName || ''} ${contact.lastName || ''}`.trim() || contact.email
displayName(contact) ==
    LET first == IF truthy(contact.firstName) THEN contact.firstName ELSE <<>>
        last == IF truthy(contact.lastName) THEN contact.lastName ELSE <<>>
        full == trim(first \o <<" ">> \o last)
    IN  IF full # <<>> THEN full ELSE contact.email

\* hasBearer with the scheme test dropped: any header present passes
hasBearerAnyScheme(authHeader) == authHeader # Absent

\* !authHeader || !authHeader.startsWith('Bearer ') is false
hasBearer(authHeader) ==
    authHeader # Absent /\ startsWith(authHeader, BearerPrefix)

\* authHeader.split(' ')[1]
bearerToken(authHeader) == split(authHeader, " ")[2]

(***************************************************************************)
(* State                                                                   *)
(***************************************************************************)
VARIABLES
    variant,    \* the deployment variant that is running: "A" or "B"
    store,      \* the upstream's contacts, in creation order
    pc,         \* per request slot: "idle", the helper awaited, or "done"
    req,        \* per slot: the route and the request's inputs
    calls,      \* per slot: the upstream helper calls made so far, in order
    res,        \* per slot: the response sent
    cScheme, cId, cNow, cToken, cDecoded, cPc   \* the token codec on its own

vars == <<variant, store, pc, req, calls, res,
          cScheme, cId, cNow, cToken, cDecoded, cPc>>
codecVars == <<cScheme, cId, cNow, cToken, cDecoded, cPc>>

\* request slots that may be in flight together
MaxInFlight == 2
\* contacts the upstream holds at most
MaxContacts == 2

NoUser ==
    [email |-> Absent, id |-> Absent, name |-> Absent, firstName |-> Absent,
     lastName |-> Absent, subscriptionTier |-> Absent]

NoReq ==
    [route |-> "none", auth |-> Absent, email |-> Absent, password |-> Absent,
     firstName |-> Absent, lastName |-> Absent, plan |-> Absent, body |-> Absent]

NoRes ==
    [status |-> 0, success |-> FALSE, message |-> "", token |-> Absent,
     user |-> NoUser, tier |-> Absent, valid |-> Absent, contact |-> NoContact]

\* res.status(status).json({ success: false, message })
Failure(status, message) ==
    [NoRes EXCEPT !.status = status, !.message = message]

\* res.json({ success: true, message, ... })
Success(message) ==
    [NoRes EXCEPT !.status = 200, !.success = TRUE, !.message = message]

\* the handler sends its response and ends
Reply(r, response) ==
    /\ pc' = [pc EXCEPT ![r] = "done"]
    /\ res' = [res EXCEPT ![r] = response]

\* the record of the helper call in flight: its arguments, how many contacts
\* the upstream held when it was issued and, once it returned, whether the
\* upstream failed, whether the helper raised, and the helper's result
Call(op, args) ==
    [op |-> op, args |-> args, seen |-> Len(store), failed |-> FALSE,
     thrown |-> FALSE, result |-> NoContact]

\* the handler calls an upstream helper and is suspended on it
Await(r, op, args) ==
    /\ pc' = [pc EXCEPT ![r] = op]
    /\ calls' = [calls EXCEPT ![r] = Append(@, Call(op, args))]
    /\ UNCHANGED <<res, store>>

\* the resumed handler calls the next helper, after the completed calls of log
AwaitNext(r, log, op, args) ==
    /\ pc' = [pc EXCEPT ![r] = op]
    /\ calls' = [log EXCEPT ![r] = Append(@, Call(op, args))]
    /\ UNCHANGED res

\* the resumed handler sends its response, after the completed calls of log
ReplyAfter(r, log, response) ==
    /\ Reply(r, response)
    /\ calls' = log

\* an error no catch block handles: the handler ends and sends nothing
Unhandled == [NoRes EXCEPT !.message = "unhandled rejection"]

\* the call in flight, completed with the upstream's outcome and the helper's result
Completed(r, upstreamOk, outcome) ==
    [calls EXCEPT ![r][Len(calls[r])] =
        [@ EXCEPT !.failed = ~upstreamOk, !.thrown = outcome.thrown,
                  !.result = outcome.value]]

\* the argument list of the call slot r is suspended on
pendingArgs(r) == calls[r][Len(calls[r])].args

\* the user summary of login, authenticate, /user/info and /auth/verify
userSummary(v, contact) ==
    [NoUser EXCEPT !.email = contact.email, !.id = contact.id,
                   !.name = IF v = "A" THEN displayName(contact) ELSE Absent,
                   !.subscriptionTier = subscriptionTier(contact)]

(***************************************************************************)
(* Handlers, up to their first upstream call                               *)
(***************************************************************************)
\* POST /auth/login
Login(r, email, password) ==
    /\ pc[r] = "idle"
    /\ req' = [req EXCEPT ![r] =
                 [NoReq EXCEPT !.route = "login", !.email = email,
                               !.password = password]]
    /\ IF ~truthy(email) \/ ~truthy(password)
       THEN Reply(r, Failure(400, "Email and password are required"))
            /\ UNCHANGED <<calls, store>>
       ELSE IF variant = "A" /\ ~validateEmail(sanitizeInput(email))
       THEN Reply(r, Failure(400, "Invalid email format"))
            /\ UNCHANGED <<calls, store>>
       ELSE IF variant = "A" /\ ~validatePassword(password)
       THEN Reply(r, Failure(400, "Password must be between 6 and 128 characters"))
            /\ UNCHANGED <<calls, store>>
       ELSE Await(r, "findContactByEmail", <<email>>)
    /\ UNCHANGED <<variant, codecVars>>

\* POST /auth/authenticate (variant A)
Authenticate(r, email, password) ==
    /\ pc[r] = "idle"
    /\ variant = "A"
    /\ req' = [req EXCEPT ![r] =
                 [NoReq EXCEPT !.route = "authenticate", !.email = email,
                               !.password = password]]
    /\ IF ~truthy(email) \/ ~truthy(password)
       THEN Reply(r, Failure(400, "Email and password are required"))
            /\ UNCHANGED <<calls, store>>
       ELSE IF ~validateEmail(sanitizeInput(email))
       THEN Reply(r, Failure(400, "Invalid email format"))
            /\ UNCHANGED <<calls, store>>
       ELSE IF ~validatePassword(password)
       THEN Reply(r, Failure(400, "Password must be between 6 and 128 characters"))
            /\ UNCHANGED <<calls, store>>
       ELSE Await(r, "findContactByEmail", <<sanitizeInput(email)>>)
    /\ UNCHANGED <<variant, codecVars>>

\* POST /auth/signup
Signup(r, email, password, firstName, lastName, plan) ==
    /\ pc[r] = "idle"
    /\ req' = [req EXCEPT ![r] =
                 [NoReq EXCEPT !.route = "signup", !.email = email,
                               !.password = password, !.firstName = firstName,
                               !.lastName = lastName, !.plan = plan]]
    /\ IF ~truthy(email) \/ ~truthy(password) \/ ~truthy(firstName)
          \/ ~truthy(lastName)
       THEN Reply(r, Failure(400, "All fields are required"))
            /\ UNCHANGED <<calls, store>>
       ELSE IF variant = "B"
       THEN Await(r, "createContact",
                  <<email, password, firstName, lastName, plan>>)
       ELSE IF ~validateEmail(sanitizeInput(email))
       THEN Reply(r, Failure(400, "Invalid email format"))
            /\ UNCHANGED <<calls, store>>
       ELSE IF ~validatePassword(password)
       THEN Reply(r, Failure(400, "Password must be between 6 and 128 characters"))
            /\ UNCHANGED <<calls, store>>
       ELSE IF Len(sanitizeInput(firstName)) < 2 \/ Len(sanitizeInput(lastName)) < 2
       THEN Reply(r, Failure(400, "First and last names must be at least 2 characters"))
            /\ UNCHANGED <<calls, store>>
       ELSE Await(r, "createContact",
                  <<sanitizeInput(email), password, sanitizeInput(firstName),
                    sanitizeInput(lastName), plan>>)
    /\ UNCHANGED <<variant, codecVars>>

\* GET /user/info
UserInfo(r, authHeader) ==
    /\ pc[r] = "idle"
    /\ req' = [req EXCEPT ![r] =
                 [NoReq EXCEPT !.route = "userInfo", !.auth = authHeader]]
    /\ IF ~hasBearer(authHeader)
       THEN Reply(r, Failure(401, "Authorization token required"))
            /\ UNCHANGED <<calls, store>>
       ELSE IF userInfoRecognizes(variant, bearerToken(authHeader))
       THEN Await(r, "getContactById",
                  <<userInfoDecode(variant, bearerToken(authHeader))>>)
       ELSE Reply(r, Failure(401, "Invalid token or user not found"))
            /\ UNCHANGED <<calls, store>>
    /\ UNCHANGED <<variant, codecVars>>

\* POST /auth/verify (variant B)
Verify(r, authHeader) ==
    /\ pc[r] = "idle"
    /\ variant = "B"
    /\ req' = [req EXCEPT ![r] =
                 [NoReq EXCEPT !.route = "verify", !.auth = authHeader]]
    /\ IF ~hasBearer(authHeader)
       THEN Reply(r, Failure(401, "Authorization token required"))
            /\ UNCHANGED <<calls, store>>
       ELSE IF startsWith(bearerToken(authHeader), DummyPrefix)
       THEN Await(r, "getContactById",
                  <<dummyTokenDecode(bearerToken(authHeader))>>)
       ELSE Reply(r, Failure(401, "Invalid or expired token"))
            /\ UNCHANGED <<calls, store>>
    /\ UNCHANGED <<variant, codecVars>>

\* POST /research/save
ResearchSave(r, authHeader, body) ==
    /\ pc[r] = "idle"
    /\ req' = [req EXCEPT ![r] =
                 [NoReq EXCEPT !.route = "researchSave", !.auth = authHeader,
                               !.body = body]]
    /\ IF ~hasBearer(authHeader)
       THEN Reply(r, Failure(401, "Authorization token required"))
            /\ UNCHANGED <<calls, store>>
       ELSE IF ~startsWith(bearerToken(authHeader), DummyPrefix)
       THEN Reply(r, Failure(401, "Invalid token"))
            /\ UNCHANGED <<calls, store>>
       ELSE IF ~truthy(body)
       THEN Reply(r, Failure(400, "Research data is required"))
            /\ UNCHANGED <<calls, store>>
       ELSE Await(r, "updateContactResearchData",
                  <<dummyTokenDecode(bearerToken(authHeader)), body>>)
    /\ UNCHANGED <<variant, codecVars>>

\* GET /subscription/check
SubscriptionCheck(r, authHeader) ==
    /\ pc[r] = "idle"
    /\ req' = [req EXCEPT ![r] =
                 [NoReq EXCEPT !.route = "subscriptionCheck", !.auth = authHeader]]
    /\ IF ~hasBearer(authHeader)
       THEN Reply(r, Failure(401, "Authorization token required"))
            /\ UNCHANGED <<calls, store>>
       ELSE IF ~startsWith(bearerToken(authHeader), DummyPrefix)
       THEN Reply(r, Failure(401, "Invalid token"))
            /\ UNCHANGED <<calls, store>>
       ELSE Await(r, "getContactById",
                  <<dummyTokenDecode(bearerToken(authHeader))>>)
    /\ UNCHANGED <<variant, codecVars>>

(***************************************************************************)
(* Handlers, resumed when the awaited helper returns                       *)
(***************************************************************************)
\* Date.now() as the decimal text a template prints
Times == {<<"1", "7">>, <<"4", "2">>}

\* JSON.stringify(researchData)
JSONstringify(data) == <<"json">> \o data

\* new Date().toISOString()
toISOString(now) == <<"iso">> \o now

\* needsCreate with the test dropped: the contact is created in any case
needsCreateAlways(contact) == TRUE

\* needsCreate with the test inverted: if (contact)
needsCreateInverted(contact) == contact # NoContact

\* if (!contact) after findContactByEmail
needsCreate(contact) == contact = NoContact

\* the success response of login and authenticate
loginResponse(v, route, contact, now) ==
    IF route = "authenticate"
    THEN [Success("Authentication successful") EXCEPT
            !.token = generateSimpleToken(contact.id, now),
            !.user = userSummary(v, contact),
            !.tier = subscriptionTier(contact),
            !.valid = Str("true")]
    ELSE IF v = "A"
    THEN [Success("Login successful") EXCEPT
            !.token = generateSimpleToken(contact.id, now),
            !.user = userSummary(v, contact),
            !.tier = subscriptionTier(contact)]
    ELSE [Success("Login successful") EXCEPT
            !.token = dummyToken(contact.id),
            !.user = userSummary(v, contact)]

\* what login and authenticate do with an error thrown inside their try block
loginCatch(v, route) ==
    IF v = "B" THEN Unhandled ELSE Failure(500, "Internal server error")

\* the success response of signup
signupResponse(rq, contact) ==
    [Success("Account created successfully") EXCEPT
        !.user = [NoUser EXCEPT
                    !.id = contact.id, !.email = contact.email,
                    !.firstName = contact.firstName,
                    !.lastName = contact.lastName,
                    !.name = rq.firstName \o <<" ">> \o rq.lastName]]

\* the success response of /user/info and /auth/verify
userInfoResponse(v, route, contact) ==
    IF route = "verify"
    THEN [Success("Token valid") EXCEPT !.user = userSummary(v, contact)]
    ELSE IF v = "A"
    THEN [Success("") EXCEPT !.user = userSummary(v, contact),
                             !.tier = subscriptionTier(contact)]
    ELSE [Success("") EXCEPT !.user = userSummary(v, contact)]

\* the success response of /subscription/check
subscriptionResponse(contact) ==
    [Success("") EXCEPT
        !.tier = subscriptionTier(contact),
        !.valid = IF isValid(subscriptionTier(contact))
                  THEN Str("true") ELSE Str("false")]

\* the upstream answers the search; login or authenticate resumes
FindReturns(r, tiers) ==
    /\ pc[r] = "findContactByEmail"
    /\ \E upstreamOk \in BOOLEAN, tier \in tiers, now \in Times :
         LET found == SelectSeq(store, LAMBDA c : c.email = pendingArgs(r)[1])
             matches == [i \in 1..Len(found) |-> asContact(found[i], tier)]
             outcome == findContactByEmail(upstreamOk, matches)
             log == Completed(r, upstreamOk, outcome)
         IN  IF outcome.thrown
             THEN ReplyAfter(r, log, loginCatch(variant, req[r].route))
             ELSE IF needsCreate(outcome.value)
             THEN AwaitNext(r, log, "createContact",
                            <<pendingArgs(r)[1], req[r].password,
                              Absent, Absent, Absent>>)
             ELSE ReplyAfter(r, log,
                     loginResponse(variant, req[r].route, outcome.value, now))
    /\ UNCHANGED <<variant, store, req, codecVars>>

\* the upstream answers the creation; login, authenticate or signup resumes
CreateReturns(r, tiers) ==
    /\ pc[r] = "createContact"
    /\ \E upstreamOk \in BOOLEAN, tier \in tiers, now \in Times :
         LET a == pendingArgs(r)
             body == createBody(a[1], a[2], a[3], a[4], a[5])
             created == [id |-> IdOf(Len(store) + 1), email |-> body.email,
                         firstName |-> body.firstName, lastName |-> body.lastName,
                         research |-> Absent, researchDate |-> Absent]
             outcome == createContact(upstreamOk, asContact(created, tier))
             log == Completed(r, upstreamOk, outcome)
         IN  /\ upstreamOk => Len(store) < MaxContacts
             /\ store' = IF upstreamOk THEN Append(store, created) ELSE store
             /\ IF req[r].route = "signup"
                THEN IF outcome.thrown
                     THEN ReplyAfter(r, log, Failure(500, "Internal server error"))
                     ELSE IF outcome.value # NoContact
                     THEN ReplyAfter(r, log, signupResponse(req[r], outcome.value))
                     ELSE ReplyAfter(r, log,
                             Failure(400, "Failed to create account. Email may already exist."))
                ELSE IF outcome.thrown
                     THEN ReplyAfter(r, log, loginCatch(variant, req[r].route))
                     ELSE IF outcome.value = NoContact
                     THEN ReplyAfter(r, log, Failure(500, "Failed to create contact"))
                     ELSE ReplyAfter(r, log,
                             loginResponse(variant, req[r].route, outcome.value, now))
    /\ UNCHANGED <<variant, req, codecVars>>

\* the upstream answers the lookup; /user/info, /auth/verify or
\* /subscription/check resumes
GetReturns(r, tiers) ==
    /\ pc[r] = "getContactById"
    /\ \E upstreamOk \in BOOLEAN, tier \in tiers :
         LET found == SelectSeq(store, LAMBDA c : c.id = pendingArgs(r)[1])
             ok == upstreamOk /\ found # <<>>
             outcome == getContactById(ok,
                           IF ok THEN asContact(found[1], tier) ELSE NoContact)
             log == Completed(r, ok, outcome)
         IN  IF req[r].route = "subscriptionCheck"
             THEN IF outcome.thrown
                  THEN ReplyAfter(r, log, Failure(500, "Failed to check subscription"))
                  ELSE IF outcome.value = NoContact
                  THEN ReplyAfter(r, log, Failure(404, "Contact not found"))
                  ELSE ReplyAfter(r, log, subscriptionResponse(outcome.value))
             ELSE IF outcome.thrown
                  THEN ReplyAfter(r, log, Unhandled)
                  ELSE IF outcome.value # NoContact
                  THEN ReplyAfter(r, log,
                          userInfoResponse(variant, req[r].route, outcome.value))
                  ELSE ReplyAfter(r, log,
                          Failure(401, IF req[r].route = "verify"
                                       THEN "Invalid or expired token"
                                       ELSE "Invalid token or user not found"))
    /\ UNCHANGED <<variant, store, req, codecVars>>

\* the upstream answers the update; /research/save resumes
UpdateReturns(r, tiers) ==
    /\ pc[r] = "updateContactResearchData"
    /\ \E upstreamOk \in BOOLEAN, tier \in tiers, now \in Times :
         LET a == pendingArgs(r)
             hit == {i \in 1..Len(store) : store[i].id = a[1]}
             ok == upstreamOk /\ hit # {}
             i == CHOOSE k \in hit : TRUE
             updated == [store[i] EXCEPT !.research = JSONstringify(a[2]),
                                         !.researchDate = toISOString(now)]
             outcome == updateContactResearchData(ok,
                           IF ok THEN asContact(updated, tier) ELSE NoContact)
             log == Completed(r, ok, outcome)
         IN  /\ store' = IF ok THEN [store EXCEPT ![i] = updated] ELSE store
             /\ IF outcome.thrown
                THEN ReplyAfter(r, log, Failure(500, "Failed to save research data"))
                ELSE ReplyAfter(r, log,
                        [Success("Research data saved") EXCEPT
                            !.contact = outcome.value])
    /\ UNCHANGED <<variant, req, codecVars>>

(***************************************************************************)
(* Inputs                                                                  *)
(***************************************************************************)
GoodEmail == <<"a", "@", "b", ".", "c">>
PaddedEmail == <<" ", "a", "@", "b", ".", "c">>
NoAtEmail == <<"a", "b", ".", "c">>
NoDotEmail == <<"a", "@", "b", "c">>
DotBeforeAtEmail == <<"a", ".", "b", "@", "c">>

Emails == {Absent, GoodEmail, PaddedEmail, NoAtEmail, NoDotEmail, DotBeforeAtEmail}

\* a password of n characters
pw(n) == [i \in 1..n |-> "x"]

Passwords ==
    {pw(0), pw(PasswordMin - 1), pw(PasswordMin), pw(PasswordMax),
     pw(PasswordMax + 1)}

FirstNames == {Absent, <<"A">>, <<"A", "l">>}
LastNames == {Absent, <<"B", "o">>}
Plans == {Absent, Str("Expired")}
Bodies == {Str("{k:1}")}

BasicPrefix == <<"B", "a", "s", "i", "c", " ">>

\* the tokens either scheme issues for the upstream's ids, and two that none issues
Tokens ==
    {generateSimpleToken(IdOf(n), now) : n \in 1..MaxContacts, now \in Times}
    \cup {dummyToken(IdOf(n)) : n \in 1..MaxContacts}
    \cup {<<"x">>, <<>>}

AuthHeaders ==
    {Absent} \cup {BearerPrefix \o t : t \in Tokens}
             \cup {BasicPrefix \o t : t \in Tokens}

\* a contact as login leaves it upstream
seedContact(n, email) ==
    LET body == createBody(email, pw(PasswordMin), Absent, Absent, Absent)
    IN  [id |-> IdOf(n), email |-> body.email, firstName |-> body.firstName,
         lastName |-> body.lastName, research |-> Absent, researchDate |-> Absent]

\* the upstream's contents when the server starts: up to MaxContacts contacts
SeedStores ==
    UNION {{[i \in 1..n |-> seedContact(i, e[i])] :
               e \in [1..n -> {GoodEmail, PaddedEmail}]} : n \in 0..MaxContacts}

Slots == 1..MaxInFlight

(***************************************************************************)
(* Specification: one request at a time, every route, every input          *)
(***************************************************************************)
IdleCodec ==
    /\ cScheme = "A"
    /\ cId = <<>>
    /\ cNow = <<>>
    /\ cToken = <<>>
    /\ cDecoded = <<>>
    /\ cPc = "off"

IdleSlots ==
    /\ pc = [r \in Slots |-> "idle"]
    /\ req = [r \in Slots |-> NoReq]
    /\ calls = [r \in Slots |-> <<>>]
    /\ res = [r \in Slots |-> NoRes]

Init ==
    /\ variant \in {"A", "B"}
    /\ store \in SeedStores
    /\ IdleSlots
    /\ IdleCodec

DoLogin == \E e \in Emails, p \in Passwords : Login(1, e, p)
DoAuthenticate == \E e \in Emails, p \in Passwords : Authenticate(1, e, p)
DoSignup ==
    \E e \in Emails, p \in Passwords, f \in FirstNames, l \in LastNames,
       plan \in Plans : Signup(1, e, p, f, l, plan)
DoUserInfo == \E h \in AuthHeaders : UserInfo(1, h)
DoVerify == \E h \in AuthHeaders : Verify(1, h)
DoResearchSave == \E h \in AuthHeaders, b \in Bodies : ResearchSave(1, h, b)
DoSubscriptionCheck == \E h \in AuthHeaders : SubscriptionCheck(1, h)
DoFindReturns == FindReturns(1, TierValues)
DoCreateReturns == CreateReturns(1, TierValues)
DoGetReturns == GetReturns(1, TierValues)
DoUpdateReturns == UpdateReturns(1, TierValues)

Next ==
    \/ DoLogin
    \/ DoAuthenticate
    \/ DoSignup
    \/ DoUserInfo
    \/ DoVerify
    \/ DoResearchSave
    \/ DoSubscriptionCheck
    \/ DoFindReturns
    \/ DoCreateReturns
    \/ DoGetReturns
    \/ DoUpdateReturns

Spec == Init /\ [][Next]_vars

(***************************************************************************)
(* Specification: requests in flight together (login, authenticate, signup *)
(* for one email), the upstream empty at the start                         *)
(***************************************************************************)
InitConc ==
    /\ variant \in {"A", "B"}
    /\ store = <<>>
    /\ IdleSlots
    /\ IdleCodec

ConcLogin == \E r \in Slots : Login(r, GoodEmail, pw(PasswordMin))
ConcAuthenticate == \E r \in Slots : Authenticate(r, GoodEmail, pw(PasswordMin))
ConcSignup ==
    \E r \in Slots :
        Signup(r, GoodEmail, pw(PasswordMin), <<"A", "l">>, <<"B", "o">>, Absent)
ConcFindReturns == \E r \in Slots : FindReturns(r, {Absent})
ConcCreateReturns == \E r \in Slots : CreateReturns(r, {Absent})

NextConc ==
    \/ ConcLogin
    \/ ConcAuthenticate
    \/ ConcSignup
    \/ ConcFindReturns
    \/ ConcCreateReturns

SpecConc == InitConc /\ [][NextConc]_vars

(***************************************************************************)
(* Specification: the token codec on its own, over every short contact id  *)
(***************************************************************************)
\* the longest contact id the codec is run on
MaxIdLen == 3
CodecAlphabet == {"a", "1", "_"}
CodecIds == UNION {[1..n -> CodecAlphabet] : n \in 1..MaxIdLen}

InitCodec ==
    /\ variant = "A"
    /\ store = <<>>
    /\ IdleSlots
    /\ cScheme \in {"A", "B"}
    /\ cId \in CodecIds
    /\ cNow \in Times
    /\ cToken = <<>>
    /\ cDecoded = <<>>
    /\ cPc = "start"

\* login issues the token of the scheme
Encode ==
    /\ cPc = "start"
    /\ cToken' = issueToken(cScheme, cId, cNow)
    /\ cPc' = "encoded"
    /\ UNCHANGED <<variant, store, pc, req, calls, res, cScheme, cId, cNow, cDecoded>>

\* a protected route of the same scheme decodes it
Decode ==
    /\ cPc = "encoded"
    /\ cDecoded' = userInfoDecode(cScheme, cToken)
    /\ cPc' = "decoded"
    /\ UNCHANGED <<variant, store, pc, req, calls, res, cScheme, cId, cNow, cToken>>

NextCodec == Encode \/ Decode

SpecCodec == InitCodec /\ [][NextCodec]_vars

(***************************************************************************)
(* Specification: one request body sent to /auth/login (slot 1) and to     *)
(* /auth/authenticate (slot 2) of variant A                                *)
(***************************************************************************)
InitAlias ==
    /\ variant = "A"
    /\ store \in SeedStores
    /\ IdleSlots
    /\ IdleCodec

AliasLogin == \E e \in Emails, p \in Passwords : Login(1, e, p)
AliasAuthenticate ==
    /\ pc[1] # "idle"
    /\ Authenticate(2, req[1].email, req[1].password)
AliasFindReturns == \E r \in {1, 2} : FindReturns(r, {Absent, Str("Expired")})
AliasCreateReturns == \E r \in {1, 2} : CreateReturns(r, {Absent, Str("Expired")})

NextAlias ==
    \/ AliasLogin
    \/ AliasAuthenticate
    \/ AliasFindReturns
    \/ AliasCreateReturns

SpecAlias == InitAlias /\ [][NextAlias]_vars

(***************************************************************************)
(* Properties                                                              *)
(***************************************************************************)
ProtectedRoutes == {"userInfo", "verify", "researchSave", "subscriptionCheck"}
LoginRoutes == {"login", "authenticate"}
CredentialRoutes == {"login", "authenticate", "signup"}

\* the calls of slot r that have returned
returned(r) ==
    IF pc[r] = "done" THEN 1..Len(calls[r]) ELSE 1..(Len(calls[r]) - 1)

\* the Authorization header is there and starts with 'Bearer '
bearerScheme(h) ==
    /\ h # Absent
    /\ Len(h) >= 7
    /\ SubSeq(h, 1, 7) = BearerPrefix

\* C1: a request to a protected route whose Authorization header is absent
\* or does not start with 'Bearer ' is answered 401, and no upstream helper
\* is called for it.
C1_NoBearerIs401 ==
    \A r \in Slots :
        (req[r].route \in ProtectedRoutes /\ ~bearerScheme(req[r].auth))
        => /\ pc[r] = "done"
           /\ res[r].status = 401
           /\ calls[r] = <<>>

\* C1 witness: a token the route would accept, sent under the Basic scheme
\* while its contact exists, is answered 401
C1_Witness ==
    /\ req[1].route = "subscriptionCheck"
    /\ req[1].auth = BasicPrefix \o dummyToken(IdOf(1))
    /\ Len(store) >= 1
    /\ res[1].status = 401

\* C2: the token login or authenticate issues for a contact id is accepted
\* by /user/info, /research/save and /subscription/check of the same
\* variant: none answers 401 for the scheme, each looks up that very id.
C2_OneTokenScheme ==
    \A r \in Slots : \A n \in 1..MaxContacts : \A now \in Times :
        (/\ req[r].route \in {"userInfo", "researchSave", "subscriptionCheck"}
         /\ req[r].auth = BearerPrefix \o issueToken(variant, IdOf(n), now))
        => /\ calls[r] # <<>>
           /\ calls[r][1].args[1] = IdOf(n)

\* C3: decoding the token issued for a contact id returns that id, for
\* every non-empty id, those containing '_' included, in either scheme.
C3_RoundTrip == cPc = "decoded" => cDecoded = cId

\* the email has no '@', or no '.' after its first '@'
lacksAtOrDomainDot(email) ==
    LET ats == {i \in 1..Len(email) : email[i] = "@"}
    IN  \/ ats = {}
        \/ LET at == CHOOSE i \in ats : \A j \in ats : i <= j
           IN  \A k \in (at + 1)..Len(email) : email[k] # "."

\* every field but the email that the route requires is present
otherFieldsPresent(rq) ==
    /\ truthy(rq.password)
    /\ rq.route = "signup" => truthy(rq.firstName) /\ truthy(rq.lastName)

\* C4: login, signup and authenticate answer 400 to an email that lacks an
\* '@' or lacks a '.' after the '@', the other required fields present.
C4_BadEmailIs400 ==
    \A r \in Slots :
        (/\ req[r].route \in CredentialRoutes
         /\ req[r].email # Absent
         /\ otherFieldsPresent(req[r])
         /\ lacksAtOrDomainDot(req[r].email))
        => /\ pc[r] = "done"
           /\ res[r].status = 400

\* the body is valid but for its password
validButPassword(rq) ==
    /\ validateEmail(sanitizeInput(rq.email))
    /\ rq.password # Absent
    /\ rq.route = "signup" =>
          /\ truthy(rq.firstName) /\ truthy(rq.lastName)
          /\ Len(sanitizeInput(rq.firstName)) >= 2
          /\ Len(sanitizeInput(rq.lastName)) >= 2

\* C5: login, signup and authenticate answer 400 to a password shorter than
\* 6 or longer than 128 characters, and with a length in [6,128] go on to
\* the upstream call.
C5_PasswordBounds ==
    \A r \in Slots :
        (req[r].route \in CredentialRoutes /\ validButPassword(req[r]))
        => IF Len(req[r].password) < 6 \/ Len(req[r].password) > 128
           THEN pc[r] = "done" /\ res[r].status = 400
           ELSE calls[r] # <<>>

\* the prefix of the variant's token, followed by the contact id
embeds(v, token, id) ==
    LET head == (IF v = "A" THEN SessionPrefix ELSE DummyPrefix) \o id
    IN  /\ token # Absent
        /\ Len(token) >= Len(head)
        /\ SubSeq(token, 1, Len(head)) = head

\* C6: login calls createContact only after findContactByEmail returned no
\* contact; when the creation then succeeds with contact c, login answers
\* 200, success, a token embedding c.id and a user with c's email and id.
C6_LoginFindOrCreate ==
    \A r \in Slots :
        req[r].route = "login" =>
          /\ \A i \in 1..Len(calls[r]) :
                calls[r][i].op = "createContact" =>
                   /\ i = 2
                   /\ calls[r][1].op = "findContactByEmail"
                   /\ calls[r][1].result = NoContact
          /\ (/\ pc[r] = "done"
              /\ Len(calls[r]) = 2
              /\ ~calls[r][2].failed)
             => LET c == store[Len(store)]
                IN  /\ c.email = req[r].email
                    /\ res[r].status = 200
                    /\ res[r].success
                    /\ embeds(variant, res[r].token, c.id)
                    /\ res[r].user.email = c.email
                    /\ res[r].user.id = c.id

\* C6 witness: the search found nothing, the creation succeeded, login
\* answered 200
C6_Witness ==
    /\ req[1].route = "login"
    /\ pc[1] = "done"
    /\ Len(calls[1]) = 2
    /\ ~calls[1][1].failed
    /\ ~calls[1][2].failed
    /\ res[1].status = 200
    /\ res[1].user.id = store[Len(store)].id

\* C7: /subscription/check with a dummy_jwt_token_for_ token answers, when
\* the lookup yields a contact, success with tier = the contact's tier field
\* ('Individual' when absent or empty) and valid iff tier is not 'Expired';
\* when the lookup yields none it answers 404.
C7_SubscriptionCheck ==
    \A r \in Slots :
        (req[r].route = "subscriptionCheck" /\ pc[r] = "done" /\ calls[r] # <<>>)
        => LET c == calls[r][1].result
               tier == IF c.tier = Absent \/ c.tier = <<>>
                       THEN Str("Individual") ELSE c.tier
           IN  IF c = NoContact
               THEN res[r].status = 404
               ELSE /\ res[r].status = 200
                    /\ res[r].success
                    /\ res[r].tier = tier
                    /\ res[r].valid = IF tier = Str("Expired")
                                      THEN Str("false") ELSE Str("true")

\* C7 witness: the contact's tier field is 'Expired'; the answer is valid:false
C7_Witness ==
    /\ req[1].route = "subscriptionCheck"
    /\ pc[1] = "done"
    /\ calls[1] # <<>>
    /\ calls[1][1].result.tier = Str("Expired")
    /\ res[1].valid = Str("false")
    /\ res[1].tier = Str("Expired")

\* C8: on an upstream failure findContactByEmail, createContact and
\* getContactById return null and raise nothing, updateContactResearchData
\* raises; /research/save with a recognized token answers 500 exactly when
\* the upstream update failed and otherwise success with the updated contact.
C8_ErrorAsymmetry ==
    \A r \in Slots :
        /\ \A i \in returned(r) :
              LET c == calls[r][i]
              IN  /\ (c.op # "updateContactResearchData")
                        => ~c.thrown /\ (c.failed => c.result = NoContact)
                  /\ (c.op = "updateContactResearchData")
                        => (c.thrown <=> c.failed)
        /\ (req[r].route = "researchSave" /\ pc[r] = "done" /\ calls[r] # <<>>)
           => IF calls[r][1].failed
              THEN res[r].status = 500
              ELSE /\ res[r].status = 200
                   /\ res[r].success
                   /\ res[r].contact # NoContact
                   /\ res[r].contact.id = calls[r][1].args[1]
                   /\ \E i \in 1..Len(store) :
                         /\ store[i].id = res[r].contact.id
                         /\ store[i].research = JSONstringify(req[r].body)

\* C8 witness: the upstream update failed and /research/save answered 500
C8_Witness ==
    /\ req[1].route = "researchSave"
    /\ pc[1] = "done"
    /\ calls[1] # <<>>
    /\ calls[1][1].failed
    /\ calls[1][1].thrown
    /\ res[1].status = 500

\* C9: on every route, a request whose upstream call failed is answered 500.
C9_UpstreamFailureIs500 ==
    \A r \in Slots :
        (pc[r] = "done" /\ \E i \in 1..Len(calls[r]) : calls[r][i].failed)
        => res[r].status = 500

\* C10: no handler guards createContact against a duplicate: signup's one
\* upstream call is createContact, and login or authenticate, once the
\* search returned no contact, calls createContact next, whatever the
\* upstream holds by then and whatever the other requests in flight do.
C10_NoDuplicateGuard ==
    \A r \in Slots :
        /\ (req[r].route = "signup")
           => /\ Len(calls[r]) = 1
              /\ calls[r][1].op = "createContact"
        /\ (req[r].route \in LoginRoutes /\ calls[r] # <<>>)
           => /\ calls[r][1].op = "findContactByEmail"
              /\ (1 \in returned(r) /\ calls[r][1].result = NoContact)
                 => /\ Len(calls[r]) = 2
                    /\ calls[r][2].op = "createContact"
                    /\ calls[r][2].args[1] = calls[r][1].args[1]

\* C10 witness: two signups for one email, each calling createContact while
\* the upstream held no contact, have both succeeded: two contacts carry
\* the same email
C10_Witness ==
    /\ req[1].route = "signup" /\ req[2].route = "signup"
    /\ pc[1] = "done" /\ pc[2] = "done"
    /\ calls[1][1].seen = 0 /\ calls[2][1].seen = 0
    /\ res[1].status = 200 /\ res[2].status = 200
    /\ res[1].user.id # res[2].user.id
    /\ Len(store) = 2
    /\ store[1].email = store[2].email

\* two logins for one email, each told by the upstream that no contact has
\* it, have both created one
C10_LoginRace ==
    /\ req[1].route = "login" /\ req[2].route = "login"
    /\ pc[1] = "done" /\ pc[2] = "done"
    /\ Len(calls[1]) = 2 /\ Len(calls[2]) = 2
    /\ ~calls[1][1].failed /\ ~calls[2][1].failed
    /\ res[1].status = 200 /\ res[2].status = 200
    /\ Len(store) = 2
    /\ store[1].email = store[2].email

\* the calls i of slots 1 and 2 have both returned, with the same upstream
\* outcome and the same result
sameOutcome(i) ==
    /\ i \in returned(1) /\ i \in returned(2)
    /\ calls[1][i].failed = calls[2][i].failed
    /\ calls[1][i].result = calls[2][i].result

\* C11: /auth/authenticate is an alias of /auth/login: given the same body
\* and the same upstream answers they make the same helper calls with the
\* same arguments, answer with the same status and, on success, with a
\* token for the same contact id and the same user summary.
C11_AuthenticateIsLogin ==
    (/\ req[1].route = "login" /\ req[2].route = "authenticate"
     /\ req[1].email = req[2].email /\ req[1].password = req[2].password)
    => /\ (calls[1] = <<>>) = (calls[2] = <<>>)
       /\ \A i \in 1..Len(calls[1]) :
             (i <= Len(calls[2]) /\ \A j \in 1..(i - 1) : sameOutcome(j))
             => /\ calls[1][i].op = calls[2][i].op
                /\ calls[1][i].args = calls[2][i].args
       /\ (/\ pc[1] = "done" /\ pc[2] = "done"
           /\ Len(calls[1]) = Len(calls[2])
           /\ \A j \in 1..Len(calls[1]) : sameOutcome(j))
          => /\ res[1].status = res[2].status
             /\ res[1].success = res[2].success
             /\ res[1].user = res[2].user
             /\ verifySimpleToken(res[1].token) = verifySimpleToken(res[2].token)

\* C12: a login or authenticate request for an email that a contact
\* upstream already carries when the request is handled never calls
\* createContact, whatever the search returns, an upstream error included.
C12_NoCreateForExistingEmail ==
    \A r \in Slots :
        (/\ req[r].route \in LoginRoutes
         /\ calls[r] # <<>>
         /\ \E i \in 1..calls[r][1].seen :
               store[i].email = calls[r][1].args[1])
        => \A k \in 1..Len(calls[r]) : calls[r][k].op # "createContact"

\* C13: a successful /auth/authenticate reports subscription.valid equal to
\* (subscription.tier is not 'Expired'), as /subscription/check computes it.
C13_EntitlementAgrees ==
    \A r \in Slots :
        (req[r].route = "authenticate" /\ pc[r] = "done" /\ res[r].success)
        => res[r].valid = IF res[r].tier = Str("Expired")
                          THEN Str("false") ELSE Str("true")

====
